---------------------------- MODULE Spec2Model ----------------------------
(***************************************************************************)
(* The primitive population manager of scene/gaussian_model.py             *)
(* (class GaussianModel): the per-primitive parallel arrays, the Adam      *)
(* parameter groups that track six of them, and the structural operations  *)
(* prune_points, densify_and_clone, densify_and_split, densify_and_prune.  *)
(*                                                                         *)
(* A tensor of shape (N, ...) is a sequence of length N, one entry per     *)
(* primitive.  One coordinate stands for a 3-vector where the code treats  *)
(* the components alike (position, position gradient); the three scale     *)
(* axes are kept apart because the code takes their maximum.               *)
(*                                                                         *)
(* Numbers:                                                                *)
(*   - a raw scale is a level L, exp(raw) is Exp(L) ~ 1.6^L in units of    *)
(*     1e-8 (level 0 is the 1e-3 of create_from_pcd);                      *)
(*   - a raw opacity is in 1/1000, sigmoid(raw) is Sigmoid(raw) in 1/1000; *)
(*   - a float quotient a/d is the pair <<a, d>>: d = 0 gives NaN (a = 0)  *)
(*     or +/-Inf (a # 0), as IEEE division does.                           *)
(*                                                                         *)
(* An exception ends the run: err leaves "none" and no further call is     *)
(* made (the training script does not catch it).  What the failed call had *)
(* already assigned stays assigned.                                        *)
(***************************************************************************)
EXTENDS Integers, Sequences, FiniteSets, TLC

VARIABLES
    _xyz, _features_dc, _features_rest, _opacity, _scaling, _rotation,
    _scene_scale, optimizer,
    xyz_gradient_accum, position_gradient_accum, denom, max_radii2D,
    _score, _xyz_id, _type, _normal, modify_id, percent_dense,
    _knn_index, extra_dims, err, last, ncalls

vars == <<_xyz, _features_dc, _features_rest, _opacity, _scaling, _rotation,
          _scene_scale, optimizer,
          xyz_gradient_accum, position_gradient_accum, denom, max_radii2D,
          _score, _xyz_id, _type, _normal, modify_id, percent_dense,
          _knn_index, extra_dims, err, last, ncalls>>

---------------------------------------------------------------------------
(* Bounds of the model *)

\* largest point cloud handed to create_from_pcd
MaxInit == 2
\* largest population a clone or split may produce
MaxN == 4
\* number of calls made after training_setup
MaxCalls == 2
\* levels searched by Log, either side of level 0
LevelSpan == 12

---------------------------------------------------------------------------
(* Program constants *)

\* split fan-out, the default of densify_and_split
SplitN == 2
\* physical opacity of a new primitive, 0.4, in 1/1000
InitOpacity == 400
\* raw scale level of the third axis at initialisation, log(1e-3)
ZeroLevel == 0
\* training_args.percent_dense in 1/100 (0.01)
PercentDense == 1

VOLUMETRIC == 0
PLANAR == 1

---------------------------------------------------------------------------
(* Floats *)

Abs(x) == IF x < 0 THEN -x ELSE x

\* a / d in IEEE arithmetic
Quot(a, d) == <<a, d>>
IsNaN(x) == x[2] = 0 /\ x[1] = 0
IsInf(x) == x[2] = 0 /\ x[1] # 0
IsFinite(x) == x[2] # 0
Zero == <<0, 1>>
Inf == <<1, 0>>

\* x >= y on floats; any comparison with NaN is false
GE(x, y) ==
    /\ ~IsNaN(x)
    /\ ~IsNaN(y)
    /\ IF IsInf(x) /\ IsInf(y) THEN x[1] >= y[1]
       ELSE x[1] * y[2] >= y[1] * x[2]

\* torch.norm over the last axis of an (N, 1) tensor
Norm(x) == <<Abs(x[1]), x[2]>>

\* 1.6^L in units of 1e-8, rounded
RECURSIVE Pow16(_)
Pow16(L) ==
    IF L = 0 THEN 100000
    ELSE IF L > 0 THEN (Pow16(L - 1) * 8 + 2) \div 5
    ELSE (Pow16(L + 1) * 5 + 4) \div 8

\* the powers of the levels -LevelSpan-1 .. LevelSpan+1, as a tuple
ExpTable == [i \in 1..(2 * LevelSpan + 3) |-> Pow16(i - LevelSpan - 2)] \o <<>>

\* torch.exp on a raw scale level
Exp(L) == ExpTable[L + LevelSpan + 2]

\* torch.log of a physical scale: the level whose Exp is nearest
RECURSIVE LogFrom(_, _)
LogFrom(x, L) ==
    IF L >= LevelSpan \/ 2 * x < Exp(L) + Exp(L + 1) THEN L ELSE LogFrom(x, L + 1)

Log(x) == LogFrom(x, 0 - LevelSpan)

\* torch.sigmoid on a raw opacity (1/1000), result in 1/1000
Sigmoid(r) ==
    CASE r <= -6907 -> 1
      [] r <= -5293 -> 5
      [] r <= -4595 -> 10
      [] r <= -405 -> 400
      [] r <= 0 -> 500
      [] r <= 2197 -> 900
      [] OTHER -> 999

\* inverse_sigmoid on a physical opacity (1/1000), result in 1/1000
InverseSigmoid(p) ==
    CASE p <= 1 -> -6907
      [] p <= 5 -> -5293
      [] p <= 10 -> -4595
      [] p <= 400 -> -405
      [] p <= 500 -> 0
      [] p <= 900 -> 2197
      [] OTHER -> 6907

---------------------------------------------------------------------------
(* Tensors and boolean masks *)

\* A boolean mask: zd says it is 0-dimensional (a scalar tensor), v holds its
\* entries (exactly one when zd).
Mask1(v) == [zd |-> FALSE, v |-> v]

\* Tensor.squeeze() on an (N, 1) mask: a single entry leaves no axis at all
Squeeze(m) == IF Len(m.v) = 1 THEN [zd |-> TRUE, v |-> m.v] ELSE m

\* ~mask
Not(m) == [m EXCEPT !.v = [i \in 1..Len(m.v) |-> ~m.v[i]]]

\* torch.logical_or with broadcasting of a 0-dimensional operand
LogicalOr(a, b) ==
    IF a.zd /\ ~b.zd THEN Mask1([i \in 1..Len(b.v) |-> a.v[1] \/ b.v[i]])
    ELSE IF b.zd /\ ~a.zd THEN Mask1([i \in 1..Len(a.v) |-> a.v[i] \/ b.v[1]])
    ELSE [a EXCEPT !.v = [i \in 1..Len(a.v) |-> a.v[i] \/ b.v[i]]]

\* the entries of t at the true positions of v, in order
MaskSelect(t, v) ==
    LET idx == SelectSeq([i \in 1..Len(t) |-> i], LAMBDA i : v[i])
    IN  [j \in 1..Len(idx) |-> t[idx[j]]]

\* a variant that lets a mask longer than the tensor through
IndexOKLonger(t, m) == m.zd \/ Len(m.v) >= Len(t)

\* whether t[mask] is defined: a 1-d mask must have the tensor's length
\* (IndexError otherwise); a 0-d mask indexes any tensor
IndexOK(t, m) == m.zd \/ Len(m.v) = Len(t)

\* t[mask].  A 0-d mask gives shape (1, N, ...) when true and (0, N, ...) when
\* false: the leading axis has the mask's truth value as its length.  It is
\* applied to tensors of one entry only (the mask was squeezed from N = 1).
Index(t, m) ==
    IF m.zd THEN (IF m.v[1] THEN t ELSE <<>>)
    ELSE MaskSelect(t, m.v)

\* number of true entries
Count(v) == Cardinality({i \in 1..Len(v) : v[i]})

\* torch.zeros of a length
Zeros(n) == [i \in 1..n |-> 0]

\* a variant that makes one copy whatever the count
RepeatOnce(t, n) == t

\* Tensor.repeat(N, 1): N copies of the rows, block after block
RECURSIVE Repeat(_, _)
Repeat(t, n) == IF n = 0 THEN <<>> ELSE t \o Repeat(t, n - 1)

---------------------------------------------------------------------------
(* The optimizer's parameter groups, in the order training_setup lists them *)

GroupNames == <<"scene_scale", "xyz", "f_dc", "f_rest", "opacity", "scaling", "rotation">>

\* the groups of the per-primitive arrays: all but scene_scale
Tracked == {"xyz", "f_dc", "f_rest", "opacity", "scaling", "rotation"}

NoState == [present |-> FALSE, exp_avg |-> <<>>, exp_avg_sq |-> <<>>]

\* The object as a record of its attributes
Self ==
    [_xyz |-> _xyz, _features_dc |-> _features_dc,
     _features_rest |-> _features_rest, _opacity |-> _opacity,
     _scaling |-> _scaling, _rotation |-> _rotation,
     _scene_scale |-> _scene_scale, optimizer |-> optimizer,
     xyz_gradient_accum |-> xyz_gradient_accum,
     position_gradient_accum |-> position_gradient_accum,
     denom |-> denom, max_radii2D |-> max_radii2D,
     _score |-> _score, _xyz_id |-> _xyz_id, _type |-> _type,
     _normal |-> _normal, modify_id |-> modify_id,
     percent_dense |-> percent_dense, _knn_index |-> _knn_index,
     extra_dims |-> extra_dims, err |-> err]

\* a raise has happened: the statements after it are not executed
Raised(s) == s.err # "none"

Raise(s, e) == [s EXCEPT !.err = e]

\* get_scaling, get_opacity
get_scaling(s) == [i \in 1..Len(s._scaling) |-> [a \in 1..3 |-> Exp(s._scaling[i][a])]]
get_opacity(s) == [i \in 1..Len(s._opacity) |-> Sigmoid(s._opacity[i])]

Max2(a, b) == IF a >= b THEN a ELSE b
\* torch.max(self.get_scaling, dim=1).values
MaxScaling(s) ==
    LET g == get_scaling(s)
    IN  [i \in 1..Len(g) |-> Max2(g[i][1], Max2(g[i][2], g[i][3]))]


---------------------------------------------------------------------------
(* Filter: _prune_optimizer and prune_points *)

\* a variant that filters the parameter and only cuts the moments to the
\* new length, from the front
PruneGroupTruncated(g, mask) ==
    IF ~IndexOK(g.params, mask) THEN [g |-> g, err |-> "IndexError"]
    ELSE LET p == Index(g.params, mask)
         IN  IF g.state.present
             THEN [g |-> [g EXCEPT !.params = p,
                                   !.state.exp_avg = SubSeq(@, 1, Len(p)),
                                   !.state.exp_avg_sq = SubSeq(@, 1, Len(p))],
                   err |-> "none"]
             ELSE [g |-> [g EXCEPT !.params = p], err |-> "none"]

\* One pass of the loop body of _prune_optimizer on group g: [g, err].
\* The statements run in the code's order, so a raise keeps what the earlier
\* statements stored: the state dict is filtered in place, then its entry is
\* deleted, then the parameter is indexed and the entry put back.
PruneGroup(g, mask) ==
    IF g.state.present
    THEN IF ~IndexOK(g.state.exp_avg, mask)
         THEN [g |-> g, err |-> "IndexError"]
         ELSE LET g1 == [g EXCEPT !.state.exp_avg = Index(@, mask)]
              IN  IF ~IndexOK(g.state.exp_avg_sq, mask)
                  THEN [g |-> g1, err |-> "IndexError"]
                  ELSE LET g2 == [g1 EXCEPT !.state.exp_avg_sq = Index(@, mask)]
                       IN  IF ~IndexOK(g.params, mask)
                           THEN [g |-> [g2 EXCEPT !.state = NoState],
                                 err |-> "IndexError"]
                           ELSE [g |-> [g2 EXCEPT !.params = Index(@, mask)],
                                 err |-> "none"]
    ELSE IF ~IndexOK(g.params, mask)
         THEN [g |-> g, err |-> "IndexError"]
         ELSE [g |-> [g EXCEPT !.params = Index(@, mask)], err |-> "none"]

\* a variant of the loop that filters scene_scale like any other group
RECURSIVE PruneLoopAll(_, _, _)
PruneLoopAll(opt, mask, i) ==
    IF i > Len(GroupNames) THEN [opt |-> opt, err |-> "none"]
    ELSE LET name == GroupNames[i]
             r == PruneGroup(opt[name], mask)
             o == [opt EXCEPT ![name] = r.g]
         IN  IF r.err # "none" THEN [opt |-> o, err |-> r.err]
             ELSE PruneLoopAll(o, mask, i + 1)

\* The loop of _prune_optimizer from group i on: [opt, err]
RECURSIVE PruneLoop(_, _, _)
PruneLoop(opt, mask, i) ==
    IF i > Len(GroupNames) THEN [opt |-> opt, err |-> "none"]
    ELSE LET name == GroupNames[i]
         IN  IF name = "scene_scale" THEN PruneLoop(opt, mask, i + 1)
             ELSE LET r == PruneGroup(opt[name], mask)
                      o == [opt EXCEPT ![name] = r.g]
                  IN  IF r.err # "none" THEN [opt |-> o, err |-> r.err]
                      ELSE PruneLoop(o, mask, i + 1)

\* _prune_optimizer(mask): the optimizer after the loop; optimizable_tensors
\* are the groups' new parameters
_prune_optimizer(s, mask) ==
    LET r == PruneLoop(s.optimizer, mask, 1)
    IN  [s EXCEPT !.optimizer = r.opt, !.err = r.err]

\* self.<field> = self.<field>[mask]
IndexField(s, field, mask) ==
    IF ~IndexOK(s[field], mask) THEN Raise(s, "IndexError")
    ELSE [s EXCEPT ![field] = Index(@, mask)]

\* the six attributes take the groups' new parameters
TakeOptimizable(s) ==
    [s EXCEPT !._xyz = s.optimizer["xyz"].params,
              !._features_dc = s.optimizer["f_dc"].params,
              !._features_rest = s.optimizer["f_rest"].params,
              !._opacity = s.optimizer["opacity"].params,
              !._scaling = s.optimizer["scaling"].params,
              !._rotation = s.optimizer["rotation"].params]

\* the fields prune_points filters after the optimizer's, in its order
PrunedFields ==
    <<"xyz_gradient_accum", "position_gradient_accum", "denom", "max_radii2D",
      "_score", "_xyz_id", "_type">>

RECURSIVE IndexFields(_, _, _)
IndexFields(s, mask, i) ==
    IF i > Len(PrunedFields) \/ s.err # "none" THEN s
    ELSE IndexFields(IndexField(s, PrunedFields[i], mask), mask, i + 1)

\* lines 444-461 of prune_points, on the object s1 that _prune_optimizer
\* left: a 0-d mask gives every array it indexes one more leading axis
FilterFields(s1, valid_points_mask) ==
    IF Raised(s1) THEN s1
    ELSE LET s2 == IndexFields(TakeOptimizable(s1), valid_points_mask, 1)
         IN  IF ~Raised(s2) /\ valid_points_mask.zd
             THEN [s2 EXCEPT !.extra_dims = @ + 1]
             ELSE s2

\* prune_points(mask): mask marks the primitives to remove
prune_points(s, mask) ==
    IF Raised(s) THEN s
    ELSE FilterFields(_prune_optimizer(s, Not(mask)), Not(mask))

---------------------------------------------------------------------------
(* Extend: cat_tensors_to_optimizer and densification_postfix *)

\* a variant that pads exp_avg but not exp_avg_sq
CatGroupUnpadded(g, extension_tensor) ==
    IF g.state.present
    THEN [g EXCEPT !.state.exp_avg = @ \o Zeros(Len(extension_tensor)),
                   !.params = @ \o extension_tensor]
    ELSE [g EXCEPT !.params = @ \o extension_tensor]

\* One pass of the loop body of cat_tensors_to_optimizer on group g
CatGroup(g, extension_tensor) ==
    IF g.state.present
    THEN [g EXCEPT !.state.exp_avg = @ \o Zeros(Len(extension_tensor)),
                   !.state.exp_avg_sq = @ \o Zeros(Len(extension_tensor)),
                   !.params = @ \o extension_tensor]
    ELSE [g EXCEPT !.params = @ \o extension_tensor]

\* The loop of cat_tensors_to_optimizer from group i on: [opt, err].
\* tensors_dict[name] raises KeyError for a name the dict does not hold.
RECURSIVE CatLoop(_, _, _)
CatLoop(opt, tensors_dict, i) ==
    IF i > Len(GroupNames) THEN [opt |-> opt, err |-> "none"]
    ELSE LET name == GroupNames[i]
         IN  IF name = "scene_scale" THEN CatLoop(opt, tensors_dict, i + 1)
             ELSE IF name \notin DOMAIN tensors_dict
                  THEN [opt |-> opt, err |-> "KeyError"]
                  ELSE CatLoop([opt EXCEPT ![name] = CatGroup(@, tensors_dict[name])],
                               tensors_dict, i + 1)

cat_tensors_to_optimizer(s, tensors_dict) ==
    LET r == CatLoop(s.optimizer, tensors_dict, 1)
    IN  [s EXCEPT !.optimizer = r.opt, !.err = r.err]

\* a variant that zeroes denom and max_radii2D and keeps what the gradient
\* accumulators hold, padded with zeros to the new length
ResetStatsKeepGrads(s) ==
    LET n == Len(s._xyz)
    IN  [s EXCEPT !.xyz_gradient_accum = @ \o Zeros(n - Len(@)),
                  !.position_gradient_accum = @ \o Zeros(n - Len(@)),
                  !.denom = Zeros(n),
                  !.max_radii2D = Zeros(n)]

\* the accumulators and max_radii2D are made anew, zero, at the new length
ResetStats(s) ==
    LET n == Len(s._xyz)
    IN  [s EXCEPT !.xyz_gradient_accum = Zeros(n),
                  !.position_gradient_accum = Zeros(n),
                  !.denom = Zeros(n),
                  !.max_radii2D = Zeros(n)]

\* a variant that gives every new primitive the type 0
ExtendFieldsTypeZero(s1, new) ==
    IF Raised(s1) THEN s1
    ELSE [ResetStats(TakeOptimizable(s1)) EXCEPT
            !._score = @ \o new.score,
            !._xyz_id = @ \o new.xyz_id,
            !._type = @ \o Zeros(Len(new.type))]

\* lines 496-510 of densification_postfix, on the object s1 that
\* cat_tensors_to_optimizer left
ExtendFields(s1, new) ==
    IF Raised(s1) THEN s1
    ELSE [ResetStats(TakeOptimizable(s1)) EXCEPT
            !._score = @ \o new.score,
            !._xyz_id = @ \o new.xyz_id,
            !._type = @ \o new.type]

\* densification_postfix(new_xyz, ..., new_type); new is the record of its
\* nine arguments
densification_postfix(s, new) ==
    LET d == [name \in {"xyz", "f_dc", "f_rest", "opacity", "scaling", "rotation"} |->
                CASE name = "xyz" -> new.xyz
                  [] name = "f_dc" -> new.features_dc
                  [] name = "f_rest" -> new.features_rest
                  [] name = "opacity" -> new.opacities
                  [] name = "scaling" -> new.scaling
                  [] name = "rotation" -> new.rotation]
    IN  ExtendFields(cat_tensors_to_optimizer(s, d), new)

---------------------------------------------------------------------------
(* Densification: densify_and_clone, densify_and_split, densify_and_prune *)

\* a position: b is the coordinate, q the float quotients added to it, kept
\* as terms so that a NaN or Inf term stays visible
Nudge(p, r) == [p EXCEPT !.q = Append(@, r)]

\* the clone predicate of densify_and_clone, as a mask over the population
CloneSelected(s, grads, grad_threshold, scene_extent) ==
    LET ms == MaxScaling(s)
    IN  [i \in 1..Len(ms) |->
            /\ GE(Norm(grads[i]), grad_threshold)
            /\ ms[i] * 100 <= s.percent_dense * scene_extent]

\* a variant that gives every planar clone the first quotient
AddAtMaskFirst(new_xyz, planar, rhs) ==
    [j \in 1..Len(new_xyz) |->
        IF planar[j] THEN Nudge(new_xyz[j], rhs[1]) ELSE new_xyz[j]]

\* new_xyz[new_type.squeeze() == 1] += rhs, for a 1-d mask: the j-th planar
\* clone takes the j-th quotient
AddAtMask(new_xyz, planar, rhs) ==
    [j \in 1..Len(new_xyz) |->
        IF planar[j]
        THEN Nudge(new_xyz[j], rhs[Cardinality({h \in 1..j : planar[h]})])
        ELSE new_xyz[j]]

densify_and_clone(s, grads, grad_threshold, scene_extent) ==
    IF Raised(s) THEN s
    ELSE
    LET sel == Mask1(CloneSelected(s, grads, grad_threshold, scene_extent))
        new_xyz == Index(s._xyz, sel)
        new_type == Index(s._type, sel)
        \* line 565: the selection is narrowed to the PLANAR primitives
        sel_planar == Mask1([i \in 1..Len(sel.v) |-> sel.v[i] /\ s._type[i] = 1])
        num == Index(s.position_gradient_accum, sel_planar)
        den == Index(s.denom, sel_planar)
        rhs == [j \in 1..Len(num) |-> Quot(num[j], den[j])]
        planar == Squeeze(Mask1([j \in 1..Len(new_type) |-> new_type[j] = 1]))
    IN  IF planar.zd /\ ~planar.v[1]
        THEN \* one clone, VOLUMETRIC: new_xyz[False] has shape (0, 1, 3) and
             \* the in-place add of a (0, 3) tensor broadcasts to (0, 0, 3)
             Raise(s, "RuntimeError: add_")
        ELSE densification_postfix(
                [s EXCEPT !.modify_id = @ \o Index(s._xyz_id, sel)],
                [xyz |-> AddAtMask(new_xyz, planar.v, rhs),
                 features_dc |-> Index(s._features_dc, sel),
                 features_rest |-> Index(s._features_rest, sel),
                 opacities |-> Index(s._opacity, sel),
                 scaling |-> Index(s._scaling, sel),
                 rotation |-> Index(s._rotation, sel),
                 score |-> Index(s._score, sel),
                 xyz_id |-> Index(s._xyz_id, sel),
                 type |-> new_type])

\* padded_grad: zeros(n_init_points) with grads.squeeze() written at the front
PaddedGrad(grads, n) == [i \in 1..n |-> IF i <= Len(grads) THEN grads[i] ELSE Zero]

\* the split predicate of densify_and_split, as a mask over the population
SplitSelected(s, grads, grad_threshold, scene_extent) ==
    LET ms == MaxScaling(s)
        padded_grad == PaddedGrad(grads, Len(s._xyz))
    IN  [i \in 1..Len(ms) |->
            /\ GE(padded_grad[i], grad_threshold)
            /\ ~(ms[i] * 100 <= s.percent_dense * scene_extent)]

\* a variant that divides by 0.8 whatever the fan-out
ShrunkScalingNoN(sc, N) == [a \in 1..3 |-> Log((Exp(sc[a]) * 10) \div 8)]

\* scaling_inverse_activation(get_scaling / (0.8 * N)) on one primitive
ShrunkScaling(sc, N) == [a \in 1..3 |-> Log((Exp(sc[a]) * 10) \div (8 * N))]

\* samples[j] is what torch.normal and the rotation give child j
densify_and_split(s, grads, grad_threshold, scene_extent, N, samples) ==
    IF Raised(s) THEN s
    ELSE IF Len(grads) > Len(s._xyz)
    THEN Raise(s, "RuntimeError: copy_")
    ELSE
    LET sel == Mask1(SplitSelected(s, grads, grad_threshold, scene_extent))
        k == Count(sel.v)
        parents == Repeat(Index(s._xyz, sel), N)
        new_xyz == [j \in 1..Len(parents) |->
                        [parents[j] EXCEPT !.b = @ + samples[j]]]
        sc == Index(s._scaling, sel)
        prune_filter == Mask1(sel.v \o [j \in 1..(N * k) |-> FALSE])
    IN  prune_points(
            densification_postfix(
                [s EXCEPT !.modify_id = @ \o Index(s._xyz_id, sel)],
                [xyz |-> new_xyz,
                 features_dc |-> Repeat(Index(s._features_dc, sel), N),
                 features_rest |-> Repeat(Index(s._features_rest, sel), N),
                 opacities |-> Repeat(Index(s._opacity, sel), N),
                 scaling |-> Repeat([j \in 1..Len(sc) |-> ShrunkScaling(sc[j], N)], N),
                 rotation |-> Repeat(Index(s._rotation, sel), N),
                 score |-> Repeat(Index(s._score, sel), N),
                 xyz_id |-> Repeat(Index(s._xyz_id, sel), N),
                 type |-> Repeat(Index(s._type, sel), N)]),
            prune_filter)

\* a variant that averages the position gradient
AvgGradsOfPosition(s) ==
    [i \in 1..Len(s.position_gradient_accum) |->
        LET g == Quot(s.position_gradient_accum[i], s.denom[i])
        IN  IF IsNaN(g) THEN Zero ELSE g]

\* grads = xyz_gradient_accum / denom; grads[grads.isnan()] = 0.0
AvgGrads(s) ==
    [i \in 1..Len(s.xyz_gradient_accum) |->
        LET g == Quot(s.xyz_gradient_accum[i], s.denom[i])
        IN  IF IsNaN(g) THEN Zero ELSE g]

\* a variant that leaves the ids as they are
KeepXyzId(s) == s

\* reset_xyz_id: arange(N)
reset_xyz_id(s) == [s EXCEPT !._xyz_id = [i \in 1..Len(s._xyz) |-> i - 1]]

\* a variant whose opacity test is <= instead of <
PruneMaskInclusive(s, min_opacity, extent, max_screen_size) ==
    LET op == get_opacity(s)
        prune_mask == Squeeze(Mask1([i \in 1..Len(op) |-> op[i] <= min_opacity]))
        ms == MaxScaling(s)
    IN  IF max_screen_size # <<>> /\ max_screen_size[1] # 0
        THEN LET big_points_vs ==
                    Mask1([i \in 1..Len(s.max_radii2D) |->
                              s.max_radii2D[i] > max_screen_size[1]])
                 big_points_ws ==
                    Mask1([i \in 1..Len(ms) |-> ms[i] * 10 > extent])
             IN  LogicalOr(LogicalOr(prune_mask, big_points_vs), big_points_ws)
        ELSE prune_mask

\* the removal mask of densify_and_prune, lines 588-611; max_screen_size is
\* <<>> for None
PruneMask(s, min_opacity, extent, max_screen_size) ==
    LET op == get_opacity(s)
        prune_mask == Squeeze(Mask1([i \in 1..Len(op) |-> op[i] < min_opacity]))
        ms == MaxScaling(s)
    IN  IF max_screen_size # <<>> /\ max_screen_size[1] # 0
        THEN LET big_points_vs ==
                    Mask1([i \in 1..Len(s.max_radii2D) |->
                              s.max_radii2D[i] > max_screen_size[1]])
                 big_points_ws ==
                    Mask1([i \in 1..Len(ms) |-> ms[i] * 10 > extent])
             IN  LogicalOr(LogicalOr(prune_mask, big_points_vs), big_points_ws)
        ELSE prune_mask

\* lines 620-629: the positions go to open3d as an (N, 3) array, which it
\* refuses when a 0-d mask has left them with a further axis; the normals
\* it estimates are one per point
EstimateNormals(s) ==
    IF Raised(s) THEN s
    ELSE IF s.extra_dims > 0 THEN Raise(s, "RuntimeError: Vector3dVector")
    ELSE [s EXCEPT !._normal = [isNone |-> FALSE, v |-> [i \in 1..Len(s._xyz) |-> 1]]]

\* lines 588-629 of densify_and_prune, on the object s3 that clone and split
\* left
PruneAndEstimate(s3, min_opacity, extent, max_screen_size) ==
    EstimateNormals(
        prune_points(s3, PruneMask(s3, min_opacity, extent, max_screen_size)))

densify_and_prune(s, max_grad, min_opacity, extent, max_screen_size, samples) ==
    LET grads == AvgGrads(s)
        s1 == [reset_xyz_id(s) EXCEPT !.modify_id = <<>>]
    IN  PruneAndEstimate(
            densify_and_split(densify_and_clone(s1, grads, max_grad, extent),
                              grads, max_grad, extent, SplitN, samples),
            min_opacity, extent, max_screen_size)

---------------------------------------------------------------------------
(* The nearest-neighbour index: findKNN and get_knn_index *)

\* the k a caller asks neighbours for
Ks == {1, 2}

\* self._knn_index, a dict: under each k either nothing or the lists
\* findKNN(k) stored, one list of 0-based indices per point
NoIndex == [present |-> FALSE, index |-> <<>>]

\* a position as open3d gets it: the coordinate with its quotients added;
\* it is a number only when every quotient is finite
IsNumber(p) == \A h \in 1..Len(p.q) : IsFinite(p.q[h])

RECURSIVE SumQ(_, _)
SumQ(q, h) == IF h > Len(q) THEN 0 ELSE (q[h][1] \div q[h][2]) + SumQ(q, h + 1)

Coord(p) == p.b + SumQ(p.q, 1)

\* the k nearest of the candidates to x, nearest first, ties in the order
\* of the indices
RECURSIVE Nearest(_, _, _, _)
Nearest(pts, cands, x, k) ==
    IF k = 0 \/ cands = {} THEN <<>>
    ELSE LET d(j) == Abs(Coord(pts[j]) - x)
             j == CHOOSE j \in cands :
                    \A h \in cands : d(j) < d(h) \/ (d(j) = d(h) /\ j <= h)
         IN  <<j - 1>> \o Nearest(pts, cands \ {j}, x, k - 1)

\* knn_tree.search_knn_vector_3d(p, knn=k)[1] for the point i: a distance
\* that is NaN is never below the worst distance kept, so a point with a
\* NaN coordinate is nobody's neighbour and has none
search_knn_vector_3d(pts, i, k) ==
    IF ~IsNumber(pts[i]) THEN <<>>
    ELSE Nearest(pts, {j \in 1..Len(pts) : IsNumber(pts[j])}, Coord(pts[i]), k)

\* findKNN(k): the lists are stored under k, then stacked into one tensor,
\* which torch.concat refuses for no list at all and for lists of
\* different lengths
findKNN(s, k) ==
    IF s.extra_dims > 0 THEN Raise(s, "RuntimeError: Vector3dVector")
    ELSE LET index == [i \in 1..Len(s._xyz) |-> search_knn_vector_3d(s._xyz, i, k)]
             s1 == [s EXCEPT !._knn_index[k] = [present |-> TRUE, index |-> index]]
         IN  IF \/ Len(index) = 0
                \/ \E i, j \in 1..Len(index) : Len(index[i]) # Len(index[j])
             THEN Raise(s1, "RuntimeError: concat")
             ELSE s1

\* get_knn_index(k): self._knn_index[k], a KeyError when findKNN(k) was
\* never called
get_knn_index(s, k) ==
    IF s._knn_index[k].present
    THEN [value |-> s._knn_index[k].index, err |-> "none"]
    ELSE [value |-> <<>>, err |-> "KeyError"]

---------------------------------------------------------------------------
(* Construction: create_from_pcd and training_setup *)

\* computeNormal: its first statement is "return None"
computeNormal == [isNone |-> TRUE, v |-> <<>>]

\* a variant whose mask is type == 1
InitScalesMaskOne(pcd) ==
    [i \in 1..Len(pcd.points) |->
        <<pcd.dist[i], pcd.dist[i],
          IF pcd.types[i] = 1 THEN pcd.dist[i] ELSE ZeroLevel>>]

\* lines 239-241 and 265-266: log of (scales, scales, 1e-3), then the third
\* axis takes the second where type == 0
InitScales(pcd) ==
    [i \in 1..Len(pcd.points) |->
        <<pcd.dist[i], pcd.dist[i],
          IF pcd.types[i] = 0 THEN pcd.dist[i] ELSE ZeroLevel>>]

\* create_from_pcd(pcd): pcd.points, pcd.types and, per point, the level
\* dist of log(sqrt(dist2 / 2)) from the nearest-neighbour distance
create_from_pcd(pcd) ==
    LET n == Len(pcd.points)
        scales == InitScales(pcd)
    IN  [_xyz |-> [i \in 1..n |-> [b |-> pcd.points[i], q |-> <<>>]],
         _features_dc |-> Zeros(n),
         _features_rest |-> Zeros(n),
         _opacity |-> [i \in 1..n |-> InverseSigmoid(InitOpacity)],
         _scaling |-> scales,
         _rotation |-> pcd.normals,
         _scene_scale |-> <<1>>,
         optimizer |-> <<>>,
         xyz_gradient_accum |-> <<>>,
         position_gradient_accum |-> <<>>,
         denom |-> <<>>,
         max_radii2D |-> Zeros(n),
         _score |-> pcd.dist,
         _xyz_id |-> [i \in 1..n |-> i - 1],
         _type |-> pcd.types,
         _normal |-> computeNormal,
         modify_id |-> <<>>,
         percent_dense |-> 0,
         _knn_index |-> [k \in Ks |-> NoIndex],
         extra_dims |-> 0,
         err |-> "none"]

\* training_setup(training_args): the accumulators and the Adam groups, which
\* hold no state before the first step
training_setup(s, training_args) ==
    LET n == Len(s._xyz)
        group(p) == [params |-> p, state |-> NoState]
    IN  [s EXCEPT
            !.percent_dense = training_args.percent_dense,
            !.xyz_gradient_accum = Zeros(n),
            !.position_gradient_accum = Zeros(n),
            !.denom = Zeros(n),
            !.optimizer =
                [name \in {GroupNames[i] : i \in 1..Len(GroupNames)} |->
                    CASE name = "scene_scale" -> group(s._scene_scale)
                      [] name = "xyz" -> group(s._xyz)
                      [] name = "f_dc" -> group(s._features_dc)
                      [] name = "f_rest" -> group(s._features_rest)
                      [] name = "opacity" -> group(s._opacity)
                      [] name = "scaling" -> group(s._scaling)
                      [] name = "rotation" -> group(s._rotation)]]

---------------------------------------------------------------------------
(* The per-iteration calls *)

\* a variant that counts a step for every primitive, visible or not
AddStatsDenomAll(s, grad_norm, xyz_grad, update_filter) ==
    LET upd(field, g) ==
            [i \in 1..Len(s[field]) |->
                IF update_filter.v[i] THEN s[field][i] + g[i] ELSE s[field][i]]
    IN  IF ~IndexOK(s.xyz_gradient_accum, update_filter) THEN Raise(s, "IndexError")
        ELSE [s EXCEPT
                !.xyz_gradient_accum = upd("xyz_gradient_accum", grad_norm),
                !.position_gradient_accum = upd("position_gradient_accum", xyz_grad),
                !.denom = [i \in 1..Len(s.denom) |-> s.denom[i] + 1]]

\* add_densification_stats(viewspace_point_tensor, update_filter): grad_norm is
\* the norm of viewspace_point_tensor.grad[:, :2], xyz_grad is self._xyz.grad
add_densification_stats(s, grad_norm, xyz_grad, update_filter) ==
    LET upd(field, g) ==
            [i \in 1..Len(s[field]) |->
                IF update_filter.v[i] THEN s[field][i] + g[i] ELSE s[field][i]]
    IN  IF ~IndexOK(s.xyz_gradient_accum, update_filter) THEN Raise(s, "IndexError")
        ELSE [s EXCEPT
                !.xyz_gradient_accum = upd("xyz_gradient_accum", grad_norm),
                !.position_gradient_accum = upd("position_gradient_accum", xyz_grad),
                !.denom = upd("denom", [i \in 1..Len(s.denom) |-> 1])]

\* The training loop's max_radii2D[visibility_filter] =
\* max(max_radii2D[visibility_filter], radii[visibility_filter])
update_max_radii(s, radii, visibility_filter) ==
    [s EXCEPT !.max_radii2D =
        [i \in 1..Len(@) |-> IF visibility_filter.v[i] THEN Max2(@[i], radii[i]) ELSE @[i]]]

\* optimizer.step(): every group gets its Adam state on the first step (zero
\* moments), the moments take in the gradient and the parameters move in
\* place.  The gradient of the primitive at index i is i; the opacities move
\* to new_opacity and the colours by the gradient.
AdamGroup(g, new_params) ==
    LET m == IF g.state.present THEN g.state.exp_avg ELSE Zeros(Len(g.params))
        v == IF g.state.present THEN g.state.exp_avg_sq ELSE Zeros(Len(g.params))
    IN  [params |-> new_params,
         state |-> [present |-> TRUE,
                    exp_avg |-> [i \in 1..Len(m) |-> m[i] + i],
                    exp_avg_sq |-> [i \in 1..Len(v) |-> v[i] + i * i]]]

optimizer_step(s, new_opacity) ==
    LET o == s.optimizer
    IN  TakeOptimizable(
          [s EXCEPT !.optimizer =
            [name \in DOMAIN o |->
                CASE name = "opacity" -> AdamGroup(o[name], new_opacity)
                  [] name = "f_dc" ->
                        AdamGroup(o[name], [i \in 1..Len(o[name].params) |-> o[name].params[i] + i])
                  [] name = "f_rest" ->
                        AdamGroup(o[name], [i \in 1..Len(o[name].params) |-> o[name].params[i] - i])
                  [] OTHER -> AdamGroup(o[name], o[name].params)]])

\* replace_tensor_to_optimizer(tensor, name): the group takes the tensor as
\* its parameter and zero moments; optimizer.state.get gives None for a
\* group that has made no step, and None[...] = ... raises TypeError
replace_tensor_to_optimizer(s, tensor, name) ==
    IF ~s.optimizer[name].state.present THEN Raise(s, "TypeError")
    ELSE [s EXCEPT !.optimizer[name] =
            [params |-> tensor,
             state |-> [present |-> TRUE, exp_avg |-> Zeros(Len(tensor)),
                        exp_avg_sq |-> Zeros(Len(tensor))]]]

Min2(a, b) == IF a <= b THEN a ELSE b

\* the opacity reset_opacity caps at, 0.01, in 1/1000
OpacityCap == 10

\* reset_opacity: every opacity becomes min(opacity, 0.01)
reset_opacity(s) ==
    LET op == get_opacity(s)
        opacities_new == [i \in 1..Len(op) |-> InverseSigmoid(Min2(op[i], OpacityCap))]
        s1 == replace_tensor_to_optimizer(s, opacities_new, "opacity")
    IN  IF Raised(s1) THEN s1
        ELSE [s1 EXCEPT !._opacity = s1.optimizer["opacity"].params]

---------------------------------------------------------------------------
(* Persistence: save_ply and load_ply *)

\* save_ply(path): [file, err].  The file is the vertex element, one column
\* group per name of construct_list_of_attributes, stored as f4.
\* torch.from_numpy refuses the None that computeNormal left in _normal, and
\* np.concatenate refuses column groups of different row counts.
save_ply(s) ==
    IF s._normal.isNone THEN [file |-> <<>>, err |-> "TypeError"]
    ELSE IF \E n \in {Len(s._normal.v), Len(s._features_dc), Len(s._features_rest),
                      Len(s._opacity), Len(s._scaling), Len(s._rotation),
                      Len(s._type)} : n # Len(s._xyz)
    THEN [file |-> <<>>, err |-> "ValueError"]
    ELSE [file |-> [xyz |-> s._xyz, n |-> s._normal.v, f_dc |-> s._features_dc,
                    f_rest |-> s._features_rest, opacity |-> s._opacity,
                    scale |-> s._scaling, rot |-> s._rotation, type |-> s._type],
          err |-> "none"]

\* the attributes of a GaussianModel that __init__ has made: torch.empty(0)
Constructed ==
    [_xyz |-> <<>>, _features_dc |-> <<>>, _features_rest |-> <<>>,
     _opacity |-> <<>>, _scaling |-> <<>>, _rotation |-> <<>>, _type |-> <<>>,
     _normal |-> <<>>, _score |-> <<>>, _xyz_id |-> <<>>]

\* load_ply(path) on the object m: the six parameters are read from the
\* columns x.., f_dc_*, f_rest_*, opacity, scale_*, rot*; no other attribute
\* is assigned
load_ply(m, plydata) ==
    [m EXCEPT !._xyz = plydata.xyz,
              !._features_dc = plydata.f_dc,
              !._features_rest = plydata.f_rest,
              !._opacity = plydata.opacity,
              !._scaling = plydata.scale,
              !._rotation = plydata.rot]

---------------------------------------------------------------------------
(* Checkpoints: capture and restore *)

\* a GaussianModel as __init__ leaves it: empty tensors, no optimizer, and
\* the two scalars a checkpoint carries at zero
NewModel ==
    [_xyz |-> <<>>, _features_dc |-> <<>>, _features_rest |-> <<>>,
     _opacity |-> <<>>, _scaling |-> <<>>, _rotation |-> <<>>,
     _scene_scale |-> <<>>, optimizer |-> <<>>,
     xyz_gradient_accum |-> <<>>, position_gradient_accum |-> <<>>,
     denom |-> <<>>, max_radii2D |-> <<>>, _score |-> <<>>, _xyz_id |-> <<>>,
     _type |-> <<>>, _normal |-> <<>>, modify_id |-> <<>>, percent_dense |-> 0,
     active_sh_degree |-> 0, spatial_lr_scale |-> 0, err |-> "none"]

\* optimizer.state_dict(): the Adam state of each group, by group
state_dict(opt) == [name \in DOMAIN opt |-> opt[name].state]

\* optimizer.load_state_dict(opt_dict): each group takes the state saved
\* for it and keeps the parameter it has
load_state_dict(s, opt_dict) ==
    [s EXCEPT !.optimizer =
        [name \in DOMAIN s.optimizer |->
            [s.optimizer[name] EXCEPT !.state = opt_dict[name]]]]

\* capture(): the tuple of fourteen values
capture(s) ==
    <<s.active_sh_degree, s._xyz, s._type, s._normal, s._features_dc,
      s._features_rest, s._scaling, s._rotation, s._opacity, s.max_radii2D,
      s.xyz_gradient_accum, s.denom, state_dict(s.optimizer), s.spatial_lr_scale>>

\* the number of targets restore unpacks model_args into
RestoreTargets == 12

\* restore(model_args, training_args) on the object m.  The unpacking
\* raises ValueError, before any target is assigned, unless model_args has
\* exactly as many values as there are targets; the values go to the
\* targets by position.
restore(m, model_args, training_args) ==
    IF Len(model_args) # RestoreTargets THEN Raise(m, "ValueError")
    ELSE LET m1 == [m EXCEPT !.active_sh_degree = model_args[1],
                             !._xyz = model_args[2],
                             !._features_dc = model_args[3],
                             !._features_rest = model_args[4],
                             !._scaling = model_args[5],
                             !._rotation = model_args[6],
                             !._opacity = model_args[7],
                             !.max_radii2D = model_args[8],
                             !.spatial_lr_scale = model_args[12]]
             m2 == training_setup(m1, training_args)
             m3 == [m2 EXCEPT !.xyz_gradient_accum = model_args[9],
                              !.denom = model_args[10]]
         IN  load_state_dict(m3, model_args[11])

---------------------------------------------------------------------------
(* Inputs *)

\* nearest-neighbour scale levels of the input points
DistLevels == {2, 4, 8}
\* max_grad: 0, 2 and +infinity
GradThresholds == {Zero, <<2, 1>>, Inf}
\* min_opacity in 1/1000: 0, 0.01 and 1.001
MinOpacities == {0, 10, 1001}
\* the scene extent in units of 1e-8 (0.3)
Extents == {30000000}
\* max_screen_size: None or 20
ScreenSizes == {<<>>, <<20>>}
\* the offset torch.normal gives the first block of children; the second
\* block gets its negative
Noise == {1}
\* (screen-space gradient norm, position gradient) of the visible primitives
GradPairs == {<<2, 1>>, <<1, 3>>}
\* the radius the rasterizer reports for a visible primitive
Radii == {30}
\* raw opacities an optimizer step leaves, cycled over the population
OpacityCycles == {<<-6907, -4595, 2197>>, <<-4595, 2197, -6907>>}

\* active_sh_degree of the object under training (oneupSHdegree raises it)
ShDegrees == {1, 2}
\* the spatial_lr_scale create_from_pcd was given
LrScales == {5}

Masks(n) == {Mask1(v) : v \in [1..n -> BOOLEAN]}
\* masks of a wrong length, one entry short or one too long: all true
WrongMasks(n) == {Mask1([i \in 1..m |-> TRUE]) : m \in {n - 1, n + 1} \ {-1}}
Samples(d) == [j \in 1..(SplitN * MaxN) |-> IF j <= MaxN THEN d ELSE 0 - d]

NoCall ==
    [op |-> "training_setup", max_grad |-> Zero, min_opacity |-> 0, extent |-> 0,
     max_screen_size |-> <<>>, mask |-> Mask1(<<>>), n |-> 0, clone |-> <<>>,
     split |-> <<>>, counts |-> [name \in Tracked |-> -1], k |-> 0,
     result |-> <<>>]

---------------------------------------------------------------------------
(* The state machine *)

Install(s) ==
    /\ _xyz' = s._xyz
    /\ _features_dc' = s._features_dc
    /\ _features_rest' = s._features_rest
    /\ _opacity' = s._opacity
    /\ _scaling' = s._scaling
    /\ _rotation' = s._rotation
    /\ _scene_scale' = s._scene_scale
    /\ optimizer' = s.optimizer
    /\ xyz_gradient_accum' = s.xyz_gradient_accum
    /\ position_gradient_accum' = s.position_gradient_accum
    /\ denom' = s.denom
    /\ max_radii2D' = s.max_radii2D
    /\ _score' = s._score
    /\ _xyz_id' = s._xyz_id
    /\ _type' = s._type
    /\ _normal' = s._normal
    /\ modify_id' = s.modify_id
    /\ percent_dense' = s.percent_dense
    /\ _knn_index' = s._knn_index
    /\ extra_dims' = s.extra_dims
    /\ err' = s.err

Init ==
    \E n \in 1..MaxInit :
      \E types \in [1..n -> {VOLUMETRIC, PLANAR}], dist \in [1..n -> DistLevels] :
        LET pcd == [points |-> [i \in 1..n |-> 10 * i], types |-> types,
                    dist |-> dist, normals |-> [i \in 1..n |-> i]]
            s == training_setup(create_from_pcd(pcd), [percent_dense |-> PercentDense])
        IN  /\ _xyz = s._xyz
            /\ _features_dc = s._features_dc
            /\ _features_rest = s._features_rest
            /\ _opacity = s._opacity
            /\ _scaling = s._scaling
            /\ _rotation = s._rotation
            /\ _scene_scale = s._scene_scale
            /\ optimizer = s.optimizer
            /\ xyz_gradient_accum = s.xyz_gradient_accum
            /\ position_gradient_accum = s.position_gradient_accum
            /\ denom = s.denom
            /\ max_radii2D = s.max_radii2D
            /\ _score = s._score
            /\ _xyz_id = s._xyz_id
            /\ _type = s._type
            /\ _normal = s._normal
            /\ modify_id = s.modify_id
            /\ percent_dense = s.percent_dense
            /\ _knn_index = s._knn_index
            /\ extra_dims = s.extra_dims
            /\ err = s.err
            /\ last = NoCall
            /\ ncalls = 0

\* a call may be made: the run has not raised, and the bound is not reached
CanCall == err = "none" /\ ncalls < MaxCalls

Called(c) == last' = c /\ ncalls' = ncalls + 1

N == Len(_xyz)

\* each attribute is its group's parameter, so that the gradients of a
\* training step reach the optimizer
AttributesAreParams ==
    /\ _xyz = optimizer["xyz"].params
    /\ _features_dc = optimizer["f_dc"].params
    /\ _features_rest = optimizer["f_rest"].params
    /\ _opacity = optimizer["opacity"].params
    /\ _scaling = optimizer["scaling"].params
    /\ _rotation = optimizer["rotation"].params

Prune ==
    /\ CanCall
    /\ \E mask \in Masks(N) \cup WrongMasks(N) :
         /\ \E s \in {prune_points(Self, mask)} : Install(s)
         /\ Called([NoCall EXCEPT !.op = "prune_points", !.mask = mask, !.n = N])

Clone ==
    /\ CanCall
    /\ \E max_grad \in GradThresholds, extent \in Extents :
         LET sel == CloneSelected(Self, AvgGrads(Self), max_grad, extent)
         IN  /\ N + Count(sel) <= MaxN
             /\ \E s \in {densify_and_clone(Self, AvgGrads(Self), max_grad, extent)} :
                    Install(s)
             /\ Called([NoCall EXCEPT !.op = "densify_and_clone", !.max_grad = max_grad,
                                      !.extent = extent, !.n = N, !.clone = sel])

Split ==
    /\ CanCall
    /\ \E max_grad \in GradThresholds, extent \in Extents, d \in Noise :
         LET sel == SplitSelected(Self, AvgGrads(Self), max_grad, extent)
         IN  /\ N + Count(sel) <= MaxN
             /\ \E s \in {densify_and_split(Self, AvgGrads(Self), max_grad, extent,
                                            SplitN, Samples(d))} :
                    Install(s)
             /\ Called([NoCall EXCEPT !.op = "densify_and_split", !.max_grad = max_grad,
                                      !.extent = extent, !.n = N, !.split = sel])

DensifyAndPrune ==
    /\ CanCall
    /\ \E max_grad \in GradThresholds, min_opacity \in MinOpacities,
          extent \in Extents, max_screen_size \in ScreenSizes, d \in Noise :
         LET csel == CloneSelected(Self, AvgGrads(Self), max_grad, extent)
             ssel == SplitSelected(Self, AvgGrads(Self), max_grad, extent)
         IN  /\ N + Count(csel) + Count(ssel) <= MaxN
             /\ \E s \in {densify_and_prune(Self, max_grad, min_opacity, extent,
                                            max_screen_size, Samples(d))} :
                    Install(s)
             /\ Called([NoCall EXCEPT !.op = "densify_and_prune", !.max_grad = max_grad,
                                      !.min_opacity = min_opacity, !.extent = extent,
                                      !.max_screen_size = max_screen_size, !.n = N,
                                      !.clone = csel, !.split = ssel])

AddDensificationStats ==
    /\ CanCall
    /\ \E update_filter \in Masks(N), g \in GradPairs :
         /\ \E s \in {add_densification_stats(Self, [i \in 1..N |-> g[1]],
                                              [i \in 1..N |-> g[2]], update_filter)} :
                Install(s)
         /\ Called([NoCall EXCEPT !.op = "add_densification_stats",
                                  !.mask = update_filter, !.n = N])

UpdateMaxRadii ==
    /\ CanCall
    /\ \E visibility_filter \in Masks(N), r \in Radii :
         /\ \E s \in {update_max_radii(Self, [i \in 1..N |-> r], visibility_filter)} :
                Install(s)
         /\ Called([NoCall EXCEPT !.op = "max_radii2D", !.mask = visibility_filter,
                                  !.n = N])

OptimizerStep ==
    /\ CanCall
    /\ AttributesAreParams
    /\ \E c \in OpacityCycles :
         /\ \E s \in {optimizer_step(Self, [i \in 1..Len(_opacity) |->
                                                c[((i - 1) % 3) + 1]])} :
                Install(s)
         /\ Called([NoCall EXCEPT !.op = "optimizer.step", !.n = N])

ResetOpacity ==
    /\ CanCall
    /\ \E s \in {reset_opacity(Self)} : Install(s)
    /\ Called([NoCall EXCEPT !.op = "reset_opacity", !.n = N])

Next ==
    \/ Prune
    \/ Clone
    \/ Split
    \/ DensifyAndPrune
    \/ AddDensificationStats
    \/ UpdateMaxRadii
    \/ OptimizerStep
    \/ ResetOpacity

Spec == Init /\ [][Next]_vars

---------------------------------------------------------------------------
(* Extend called on its own, with arguments of the caller's making *)

\* the rows a caller hands to Extend: c new primitives at the origin
NewRows(name, c) ==
    CASE name = "xyz" -> [i \in 1..c |-> [b |-> 0, q |-> <<>>]]
      [] name = "scaling" -> [i \in 1..c |-> <<ZeroLevel, ZeroLevel, ZeroLevel>>]
      [] OTHER -> Zeros(c)

\* the leading counts of the six arrays: all one, or one array with two rows
ExtendCounts ==
    {[name \in Tracked |-> IF name = odd THEN 2 ELSE 1] : odd \in Tracked \cup {"none"}}

\* the names a tensors_dict holds: all six, or all but one
DictNames == {Tracked \ {missing} : missing \in Tracked \cup {"none"}}

\* densification_postfix(new_xyz, ..., new_type) with the rows of counts
DensificationPostfix ==
    /\ CanCall
    /\ \E counts \in ExtendCounts :
         /\ \E s \in {densification_postfix(Self,
                          [xyz |-> NewRows("xyz", counts["xyz"]),
                           features_dc |-> NewRows("f_dc", counts["f_dc"]),
                           features_rest |-> NewRows("f_rest", counts["f_rest"]),
                           opacities |-> NewRows("opacity", counts["opacity"]),
                           scaling |-> NewRows("scaling", counts["scaling"]),
                           rotation |-> NewRows("rotation", counts["rotation"]),
                           score |-> Zeros(1), xyz_id |-> Zeros(1),
                           type |-> <<VOLUMETRIC>>])} :
                Install(s)
         /\ Called([NoCall EXCEPT !.op = "densification_postfix", !.n = N,
                                  !.counts = counts])

\* cat_tensors_to_optimizer(tensors_dict) with one row under each name the
\* dict holds; the caller has not yet taken the returned tensors
CatTensorsToOptimizer ==
    /\ CanCall
    /\ \E names \in DictNames :
         /\ \E s \in {cat_tensors_to_optimizer(Self,
                          [name \in names |-> NewRows(name, 1)])} :
                Install(s)
         /\ Called([NoCall EXCEPT !.op = "cat_tensors_to_optimizer", !.n = N,
                                  !.counts = [name \in Tracked |->
                                                IF name \in names THEN 1 ELSE -1]])

NextExtend ==
    \/ DensificationPostfix
    \/ CatTensorsToOptimizer
    \/ OptimizerStep

SpecExtend == Init /\ [][NextExtend]_vars

---------------------------------------------------------------------------
(* The nearest-neighbour queries between structural calls *)

FindKNN ==
    /\ CanCall
    /\ \E k \in Ks :
         /\ \E s \in {findKNN(Self, k)} : Install(s)
         /\ Called([NoCall EXCEPT !.op = "findKNN", !.n = N, !.k = k])

\* a read: it changes nothing of the object and is not counted as a call
GetKnnIndex ==
    /\ err = "none"
    /\ \E k \in Ks :
         LET r == get_knn_index(Self, k)
         IN  /\ Install([Self EXCEPT !.err = r.err])
             /\ last' = [NoCall EXCEPT !.op = "get_knn_index", !.n = N, !.k = k,
                                       !.result = r.value]
             /\ ncalls' = ncalls

NextKnn ==
    \/ FindKNN
    \/ GetKnnIndex
    \/ Prune
    \/ Clone
    \/ Split

SpecKnn == Init /\ [][NextKnn]_vars

---------------------------------------------------------------------------
(* Saving the population and loading it into a new object *)

\* a read: it changes nothing of the object and is not counted as a call;
\* last.result is the file written
SavePly ==
    /\ err = "none"
    /\ last.op # "save_ply"
    /\ LET r == save_ply(Self)
       IN  /\ Install([Self EXCEPT !.err = r.err])
           /\ last' = [NoCall EXCEPT !.op = "save_ply", !.n = N, !.result = r.file]
           /\ ncalls' = ncalls

\* load_ply of the file just written, on a newly constructed GaussianModel;
\* last.result is that object afterwards
LoadPly ==
    /\ err = "none"
    /\ last.op = "save_ply"
    /\ last' = [NoCall EXCEPT !.op = "load_ply", !.n = N,
                              !.result = load_ply(Constructed, last.result)]
    /\ ncalls' = ncalls
    /\ Install(Self)

NextPly ==
    \/ DensifyAndPrune
    \/ OptimizerStep
    \/ Prune
    \/ SavePly
    \/ LoadPly

SpecPly == Init /\ [][NextPly]_vars

---------------------------------------------------------------------------
(* Writing a checkpoint and restoring it into a new object *)

\* a tuple of the twelve values restore names, taken from what capture
\* returned: the checkpoint without _type and _normal
TwelveOf(captured) == SubSeq(captured, 1, 2) \o SubSeq(captured, 5, 14)

\* a read: it changes nothing of the object and is not counted as a call;
\* last.result is the tuple returned
Capture ==
    /\ err = "none"
    /\ last.op # "capture"
    /\ \E d \in ShDegrees, l \in LrScales :
         last' = [NoCall EXCEPT
                    !.op = "capture", !.n = N,
                    !.result = capture(Self @@ [active_sh_degree |-> d,
                                                spatial_lr_scale |-> l])]
    /\ ncalls' = ncalls
    /\ Install(Self)

\* restore on a newly constructed GaussianModel, of the tuple capture just
\* returned or of its twelve named values; last.k is the number of values
\* given, last.result is the new object afterwards and a raise ends the run
Restore ==
    /\ err = "none"
    /\ last.op = "capture"
    /\ \E whole \in BOOLEAN :
         LET model_args == IF whole THEN last.result ELSE TwelveOf(last.result)
             r == restore(NewModel, model_args, [percent_dense |-> PercentDense])
         IN  /\ Install([Self EXCEPT !.err = r.err])
             /\ last' = [NoCall EXCEPT !.op = "restore", !.n = N,
                                       !.k = Len(model_args), !.result = r]
    /\ ncalls' = ncalls

NextCheckpoint ==
    \/ OptimizerStep
    \/ AddDensificationStats
    \/ UpdateMaxRadii
    \/ DensifyAndPrune
    \/ Capture
    \/ Restore

SpecCheckpoint == Init /\ [][NextCheckpoint]_vars

---------------------------------------------------------------------------
(* Properties.  In an action property the unprimed variables are the       *)
(* object before the call, the primed ones the object after it, and last'  *)
(* is the call.                                                            *)

TrackedAttr(name) ==
    CASE name = "xyz" -> _xyz
      [] name = "f_dc" -> _features_dc
      [] name = "f_rest" -> _features_rest
      [] name = "opacity" -> _opacity
      [] name = "scaling" -> _scaling
      [] name = "rotation" -> _rotation

Prefix(t, n) == SubSeq(t, 1, n)
Suffix(t, n) == SubSeq(t, n + 1, Len(t))

StructuralCalls == {"densify_and_clone", "densify_and_split", "prune_points"}

\* C1: in every state, so after any sequence of clone, split and prune
\* calls, the six tracked arrays (the attributes and the optimizer's
\* parameters) have one length N, and exp_avg and exp_avg_sq, where a group
\* has its Adam state, have that length too.
C1_TrackedSameLength ==
    \A name \in Tracked :
        /\ Len(TrackedAttr(name)) = N
        /\ Len(optimizer[name].params) = N
        /\ optimizer[name].state.present =>
              /\ Len(optimizer[name].state.exp_avg) = N
              /\ Len(optimizer[name].state.exp_avg_sq) = N

\* a clone, split or prune has resized a population whose groups hold
\* momentum
C1_Witness ==
    /\ last.op \in StructuralCalls
    /\ err = "none"
    /\ N # last.n
    /\ \A name \in Tracked : optimizer[name].state.present

\* C2: at every boundary (no call has raised) all per-primitive arrays have
\* the length N: the six tracked ones, type, normal, stableId (_xyz_id),
\* outlierScore (_score), the two accumulators, denom and maxScreenRadius
\* (max_radii2D).
C2_AllSameLength ==
    err = "none" =>
        /\ \A name \in Tracked : Len(TrackedAttr(name)) = N
        /\ Len(_type) = N
        /\ Len(_xyz_id) = N
        /\ Len(_score) = N
        /\ Len(xyz_gradient_accum) = N
        /\ Len(position_gradient_accum) = N
        /\ Len(denom) = N
        /\ Len(max_radii2D) = N
        /\ ~_normal.isNone
        /\ Len(_normal.v) = N

\* C3: a densify_and_clone call on a population of N of which k satisfy the
\* clone predicate leaves N + k primitives: the first N are the originals
\* with their values, the last k are the selected ones again, in order.
C3_CloneGrowsByK ==
    [][last'.op = "densify_and_clone" =>
        LET sel == last'.clone
            k == Count(sel)
        IN  /\ Len(_xyz') = N + k
            /\ Prefix(_xyz', N) = _xyz
            /\ Prefix(_features_dc', N) = _features_dc
            /\ Prefix(_features_rest', N) = _features_rest
            /\ Prefix(_opacity', N) = _opacity
            /\ Prefix(_scaling', N) = _scaling
            /\ Prefix(_rotation', N) = _rotation
            /\ Prefix(_type', N) = _type
            /\ Suffix(_rotation', N) = MaskSelect(_rotation, sel)
            /\ Suffix(_scaling', N) = MaskSelect(_scaling, sel)
            /\ Suffix(_opacity', N) = MaskSelect(_opacity, sel)
            /\ Suffix(_type', N) = MaskSelect(_type, sel)]_vars

\* C4: a densify_and_split call (fan-out 2) on a population of N of which k
\* satisfy the split predicate completes and leaves N + k primitives: first
\* the N - k non-selected ones with their values, in order, then the 2k
\* children, block after block, each with its parent's rotation, opacity,
\* type and id.
C4_SplitGrowsByK ==
    [][last'.op = "densify_and_split" =>
        LET sel == last'.split
            k == Count(sel)
            keep == [i \in 1..N |-> ~sel[i]]
        IN  /\ err' = "none"
            /\ Len(_xyz') = N + k
            /\ Prefix(_xyz', N - k) = MaskSelect(_xyz, keep)
            /\ Prefix(_features_dc', N - k) = MaskSelect(_features_dc, keep)
            /\ Prefix(_features_rest', N - k) = MaskSelect(_features_rest, keep)
            /\ Prefix(_opacity', N - k) = MaskSelect(_opacity, keep)
            /\ Prefix(_scaling', N - k) = MaskSelect(_scaling, keep)
            /\ Prefix(_rotation', N - k) = MaskSelect(_rotation, keep)
            /\ Prefix(_type', N - k) = MaskSelect(_type, keep)
            /\ Prefix(_xyz_id', N - k) = MaskSelect(_xyz_id, keep)
            /\ Suffix(_rotation', N - k) =
                  MaskSelect(_rotation, sel) \o MaskSelect(_rotation, sel)
            /\ Suffix(_opacity', N - k) =
                  MaskSelect(_opacity, sel) \o MaskSelect(_opacity, sel)
            /\ Suffix(_type', N - k) = MaskSelect(_type, sel) \o MaskSelect(_type, sel)
            /\ Suffix(_xyz_id', N - k) =
                  MaskSelect(_xyz_id, sel) \o MaskSelect(_xyz_id, sel)]_vars

\* a split that took some primitives and left another
C4_Witness ==
    /\ last.op = "densify_and_split"
    /\ err = "none"
    /\ Count(last.split) >= 1
    /\ Count(last.split) < last.n
    /\ N = last.n + Count(last.split)

\* C5: a densify_and_prune call with max_grad = +infinity, min_opacity = 0
\* and max_screen_size None leaves every tracked array, type and the
\* optimizer (parameters and momentum) as they were: the same entries at
\* the same indices, in tensors of the same shape.
C5_NoOpCall ==
    [][(/\ last'.op = "densify_and_prune"
        /\ last'.max_grad = Inf
        /\ last'.min_opacity = 0
        /\ last'.max_screen_size = <<>>) =>
            /\ extra_dims' = extra_dims
            /\ _xyz' = _xyz
            /\ _features_dc' = _features_dc
            /\ _features_rest' = _features_rest
            /\ _opacity' = _opacity
            /\ _scaling' = _scaling
            /\ _rotation' = _rotation
            /\ _type' = _type
            /\ optimizer' = optimizer]_vars

\* C6: a densify_and_prune call that densifies nothing and whose
\* min_opacity is above every opacity completes and leaves no primitive,
\* and a densify_and_prune call on an empty population completes and leaves
\* every per-primitive array and momentum state empty.
C6_PruneAllIsSafe ==
    [][last'.op = "densify_and_prune" =>
        /\ (last'.max_grad = Inf /\ last'.min_opacity = 1001) =>
              (err' = "none" /\ Len(_xyz') = 0)
        /\ N = 0 =>
              /\ err' = "none"
              /\ \A name \in Tracked :
                    /\ optimizer'[name].params = <<>>
                    /\ optimizer'[name].state.exp_avg = <<>>
                    /\ optimizer'[name].state.exp_avg_sq = <<>>
              /\ _xyz' = <<>> /\ _opacity' = <<>> /\ _scaling' = <<>>
              /\ _rotation' = <<>> /\ _features_dc' = <<>>
              /\ _features_rest' = <<>> /\ _type' = <<>> /\ _score' = <<>>
              /\ _xyz_id' = <<>> /\ xyz_gradient_accum' = <<>>
              /\ position_gradient_accum' = <<>> /\ denom' = <<>>
              /\ max_radii2D' = <<>>]_vars

\* the pre-call indices 0..N-1 that reset_xyz_id hands out
Arange == [i \in 1..N |-> i - 1]

\* the selected entries of t twice over, block after block
Twice(t, sel) == MaskSelect(t, sel) \o MaskSelect(t, sel)

\* the population a densify_and_prune call has when its pruning pass starts,
\* as the field t of each primitive: the originals not split, the clones,
\* the children
Densified(t) ==
    MaskSelect(t, [i \in 1..N |-> ~last'.split[i]])
        \o MaskSelect(t, last'.clone) \o Twice(t, last'.split)

\* the call got as far as its pruning pass
ReachedPrune == err' # "RuntimeError: add_"

\* C7: when a densify_and_prune call with max_screen_size None reaches its
\* pruning pass, what it leaves is the densified population without exactly
\* the primitives whose sigmoid(opacity) < min_opacity, in the same order;
\* so every primitive left has sigmoid(opacity) >= min_opacity.
C7_PruneByOpacity ==
    [][(/\ last'.op = "densify_and_prune"
        /\ last'.max_screen_size = <<>>
        /\ ReachedPrune) =>
            LET op == Densified(_opacity)
                stays == [j \in 1..Len(op) |-> ~(Sigmoid(op[j]) < last'.min_opacity)]
            IN  /\ _opacity' = MaskSelect(op, stays)
                /\ _xyz_id' = MaskSelect(Densified(Arange), stays)
                /\ _rotation' = MaskSelect(Densified(_rotation), stays)
                /\ \A j \in 1..Len(_opacity') :
                      Sigmoid(_opacity'[j]) >= last'.min_opacity]_vars

\* a pruning pass that removed one primitive for its opacity and kept one
\* whose opacity equals min_opacity, after a clone or a split in the call
C7_Witness ==
    /\ last.op = "densify_and_prune"
    /\ last.max_screen_size = <<>>
    /\ err = "none"
    /\ Count(last.clone) + Count(last.split) >= 1
    /\ N < last.n + Count(last.clone) + Count(last.split)
    /\ \E j \in 1..N : Sigmoid(_opacity[j]) = last.min_opacity

\* C8: a densify_and_prune call with max_screen_size set (and
\* max_grad = +infinity, so that every primitive is in the pruning pass as it
\* was before the call) removes every primitive whose max_radii2D before the
\* call is greater than max_screen_size, and every primitive whose largest
\* scale is greater than 0.1 * extent: no primitive left has its pre-call
\* index.
C8_PruneByScreenSize ==
    [][(/\ last'.op = "densify_and_prune"
        /\ last'.max_screen_size # <<>>
        /\ last'.max_grad = Inf) =>
            \A i \in 1..N :
                (\/ max_radii2D[i] > last'.max_screen_size[1]
                 \/ MaxScaling(Self)[i] * 10 > last'.extent) =>
                    \A j \in 1..Len(_xyz_id') : _xyz_id'[j] # i - 1]_vars

\* whether some mask m has f = the entries of full at m's true positions
IsFiltered(f, full) ==
    \E m \in [1..Len(full) -> BOOLEAN] : f = MaskSelect(full, m)

\* C9: after a densify_and_prune call modify_id holds the pre-call indices
\* of the primitives the call cloned or split, each once, and nothing else
\* (none when the clone raised before recording); every primitive left is,
\* with its rotation, type and score, a primitive of the densified
\* population under the id reset_xyz_id gave its source, the originals
\* first and in order.
C9_ModifiedIds ==
    [][last'.op = "densify_and_prune" =>
        LET mod == IF ReachedPrune
                   THEN {i - 1 : i \in {h \in 1..N : last'.clone[h] \/ last'.split[h]}}
                   ELSE {}
        IN  /\ {modify_id'[j] : j \in 1..Len(modify_id')} = mod
            /\ Len(modify_id') = Cardinality(mod)
            /\ IF ReachedPrune
               THEN IsFiltered(
                      [j \in 1..Len(_xyz_id') |->
                          <<_xyz_id'[j], _rotation'[j], _type'[j], _score'[j]>>],
                      [j \in 1..Len(Densified(Arange)) |->
                          <<Densified(Arange)[j], Densified(_rotation)[j],
                            Densified(_type)[j], Densified(_score)[j]>>])
               ELSE /\ _xyz_id' = Arange
                    /\ _rotation' = _rotation]_vars

\* a second call in a row that cloned one primitive and split another
C9_Witness ==
    /\ last.op = "densify_and_prune"
    /\ err = "none"
    /\ ncalls = 2
    /\ Count(last.clone) >= 1
    /\ Count(last.split) >= 1
    /\ Len(modify_id) = 2

\* the per-primitive arrays outside the optimizer
Untracked ==
    <<xyz_gradient_accum, position_gradient_accum, denom, max_radii2D,
      _score, _xyz_id, _type>>

\* C10: a prune_points call whose mask has not the length N raises, and
\* leaves every tracked array, the optimizer (parameters and momentum) and
\* the accumulators, denom, max_radii2D, _score, _xyz_id and _type as they
\* were.
C10_WrongMaskRejected ==
    [][(last'.op = "prune_points" /\ Len(last'.mask.v) # N) =>
            /\ err' # "none"
            /\ optimizer' = optimizer
            /\ \A name \in Tracked : TrackedAttr(name)' = TrackedAttr(name)
            /\ Untracked' = Untracked
            /\ extra_dims' = extra_dims]_vars

\* a prune with a mask of a wrong length on a population whose groups hold
\* momentum
C10_Witness ==
    /\ last.op = "prune_points"
    /\ Len(last.mask.v) # last.n
    /\ err = "IndexError"
    /\ N >= 1
    /\ \A name \in Tracked : optimizer[name].state.present

\* the calls of Extend
ExtendCalls == {"densification_postfix", "cat_tensors_to_optimizer"}

\* the lengths of the six tracked arrays, as attributes and as parameters,
\* and of the momentum the groups hold
TrackedLengths ==
    [name \in Tracked |->
        <<Len(TrackedAttr(name)), Len(optimizer[name].params),
          Len(optimizer[name].state.exp_avg), Len(optimizer[name].state.exp_avg_sq)>>]

\* C11: an Extend call (densification_postfix or cat_tensors_to_optimizer)
\* whose new values differ in their leading counts, or lack an array,
\* raises and resizes no tracked array and no momentum state.
C11_ExtendAllOrNothing ==
    [][(/\ last'.op \in ExtendCalls
        /\ \E a, b \in Tracked : last'.counts[a] # last'.counts[b]) =>
            /\ err' # "none"
            /\ TrackedLengths' = TrackedLengths]_vars

\* C12: a clone, split or prune call, alone or within densify_and_prune,
\* leaves scene_scale as it was: its value, the parameter its optimizer
\* group tracks and the momentum the group holds.
C12_SceneScaleSkipped ==
    [][last'.op \in StructuralCalls \cup {"densify_and_prune"} =>
            /\ _scene_scale' = _scene_scale
            /\ optimizer'["scene_scale"] = optimizer["scene_scale"]
            /\ optimizer'["scene_scale"].params = _scene_scale']_vars

\* a clone, split or prune that resized a population whose scene_scale
\* group holds momentum
C12_Witness ==
    /\ last.op \in StructuralCalls
    /\ err = "none"
    /\ N # last.n
    /\ optimizer["scene_scale"].state.present
    /\ Len(optimizer["scene_scale"].state.exp_avg) = 1
    /\ _scene_scale = <<1>>

\* C13: one add_densification_stats call adds, for exactly the primitives
\* whose flag in update_filter is true, the screen-gradient norm to
\* xyz_gradient_accum, the position gradient to position_gradient_accum and
\* 1 to denom; for the others the three are unchanged; N and every other
\* array, and the optimizer, are unchanged.
C13_StatsOnVisible ==
    [][last'.op = "add_densification_stats" =>
        \E g \in GradPairs :
            /\ err' = "none"
            /\ Len(xyz_gradient_accum') = N
            /\ Len(position_gradient_accum') = N
            /\ Len(denom') = N
            /\ \A i \in 1..N :
                  IF last'.mask.v[i]
                  THEN /\ xyz_gradient_accum'[i] = xyz_gradient_accum[i] + g[1]
                       /\ position_gradient_accum'[i] = position_gradient_accum[i] + g[2]
                       /\ denom'[i] = denom[i] + 1
                  ELSE /\ xyz_gradient_accum'[i] = xyz_gradient_accum[i]
                       /\ position_gradient_accum'[i] = position_gradient_accum[i]
                       /\ denom'[i] = denom[i]
            /\ \A name \in Tracked : TrackedAttr(name)' = TrackedAttr(name)
            /\ optimizer' = optimizer
            /\ <<max_radii2D, _score, _xyz_id, _type, _normal, modify_id,
                  _scene_scale>>' =
               <<max_radii2D, _score, _xyz_id, _type, _normal, modify_id,
                 _scene_scale>>]_vars

\* a second accumulation in a row, over two primitives of which one was
\* visible both times and the other never
C13_Witness ==
    /\ last.op = "add_densification_stats"
    /\ N = 2
    /\ \E i, j \in 1..N :
          /\ last.mask.v[i] /\ denom[i] = 2
          /\ ~last.mask.v[j] /\ denom[j] = 0 /\ xyz_gradient_accum[j] = 0

\* the accumulators and max_radii2D
Accumulators ==
    <<xyz_gradient_accum, position_gradient_accum, denom, max_radii2D>>

\* C14: after every densify_and_prune call xyz_gradient_accum,
\* position_gradient_accum, denom and max_radii2D are zero for every
\* primitive; add_densification_stats and reset_opacity leave no
\* accumulated value that was not zero at zero, and prune_points leaves each
\* survivor its accumulated values.
C14_ResetOnlyByDensification ==
    [][/\ last'.op = "densify_and_prune" =>
            \A a \in 1..4 : \A i \in 1..Len(Accumulators'[a]) : Accumulators'[a][i] = 0
       /\ last'.op \in {"add_densification_stats", "reset_opacity"} =>
            \A a \in 1..4 :
                /\ Len(Accumulators'[a]) = Len(Accumulators[a])
                /\ \A i \in 1..Len(Accumulators[a]) :
                      Accumulators[a][i] # 0 => Accumulators'[a][i] # 0
       /\ last'.op = "prune_points" =>
            \A a \in 1..4 :
                Accumulators'[a] =
                    IF Len(last'.mask.v) = N
                    THEN MaskSelect(Accumulators[a], Not(last'.mask).v)
                    ELSE Accumulators[a]]_vars

\* C15: a densify_and_prune call stores no NaN and no Inf: every quotient
\* it has added to a position, the offset position_gradient_accum / denom
\* of a PLANAR clone among them, is finite, whatever max_grad is (the other
\* attributes are integers of the model).
C15_NoNaNStored ==
    [][last'.op = "densify_and_prune" =>
        \A i \in 1..Len(_xyz') :
            \A k \in 1..Len(_xyz'[i].q) : IsFinite(_xyz'[i].q[k])]_vars

\* C16: the lists get_knn_index(k) returns are those of the current
\* population, also after a clone, split or prune: one list per primitive,
\* every neighbour index below N, and the lists findKNN(k) would compute
\* now.
C16_KnnFresh ==
    [][(last'.op = "get_knn_index" /\ err' = "none") =>
            /\ Len(last'.result) = N
            /\ \A i \in 1..Len(last'.result) :
                  \A j \in 1..Len(last'.result[i]) : last'.result[i][j] < N
            /\ last'.result = findKNN(Self, last'.k)._knn_index[last'.k].index]_vars

\* C17: as create_from_pcd leaves them (VOLUMETRIC = 0, PLANAR = 1), every
\* PLANAR primitive has its third raw scale equal to its second and every
\* VOLUMETRIC primitive has its third raw scale at the initial value
\* log(1e-3).
C17_ThirdAxisByType ==
    ncalls = 0 =>
        \A i \in 1..N :
            /\ _type[i] = PLANAR => _scaling[i][3] = _scaling[i][2]
            /\ _type[i] = VOLUMETRIC => _scaling[i][3] = ZeroLevel

\* C17, amended: as create_from_pcd leaves them, every VOLUMETRIC (type 0)
\* primitive has its third raw scale equal to its second, and every PLANAR
\* (type 1) primitive has its third raw scale at the initial value
\* log(1e-3).
C17_ThirdAxisByTypeAmended ==
    ncalls = 0 =>
        \A i \in 1..N :
            /\ _type[i] = VOLUMETRIC => _scaling[i][3] = _scaling[i][2]
            /\ _type[i] = PLANAR => _scaling[i][3] = ZeroLevel

\* a fresh population with a primitive of each type, whose second axis is
\* not at the initial value of the third
C17_Witness ==
    /\ ncalls = 0
    /\ \E i, j \in 1..N :
          /\ _type[i] = VOLUMETRIC /\ _scaling[i][2] # ZeroLevel
          /\ _type[j] = PLANAR /\ _scaling[j][2] # ZeroLevel

\* a primitive's rotation, which every copy and child takes from its
\* source, with its type
RotationAndType(rot, ty) == [j \in 1..Len(ty) |-> <<rot[j], ty[j]>>]

\* C18: across densify_and_prune, clone, split, prune and reset_opacity
\* calls the types are those given at initialisation: a prune leaves the
\* survivors' types, in order; a clone appends the selected primitives'
\* types; a split leaves the non-selected primitives' types and appends the
\* parents' types for the children; densify_and_prune leaves a selection of
\* the densified population, each primitive with its source's type;
\* reset_opacity leaves the types alone; and every type is 0 or 1.
C18_TypeFixed ==
    [][/\ \A j \in 1..Len(_type') : _type'[j] \in {VOLUMETRIC, PLANAR}
       /\ last'.op = "prune_points" =>
            _type' = IF Len(last'.mask.v) = N
                     THEN MaskSelect(_type, Not(last'.mask).v)
                     ELSE _type
       /\ last'.op = "densify_and_clone" =>
            _type' = IF err' = "none"
                     THEN _type \o MaskSelect(_type, last'.clone)
                     ELSE _type
       /\ last'.op = "densify_and_split" =>
            _type' = MaskSelect(_type, [i \in 1..N |-> ~last'.split[i]])
                        \o Twice(_type, last'.split)
       /\ last'.op = "densify_and_prune" =>
            IF ReachedPrune
            THEN IsFiltered(RotationAndType(_rotation', _type'),
                            RotationAndType(Densified(_rotation), Densified(_type)))
            ELSE _type' = _type
       /\ last'.op = "reset_opacity" => _type' = _type]_vars

\* a densify_and_prune call that copied a PLANAR primitive in a population
\* that also holds a VOLUMETRIC one
C18_Witness ==
    /\ last.op = "densify_and_prune"
    /\ err = "none"
    /\ Count(last.clone) + Count(last.split) >= 1
    /\ N > last.n
    /\ _type[N] = PLANAR
    /\ \E i \in 1..N : _type[i] = VOLUMETRIC

\* C19: the object load_ply makes of the file save_ply wrote has, primitive
\* for primitive and in order, the saved object's position, colour
\* coefficients, raw opacity, raw scale, raw rotation and type.
C19_PlyRoundTrip ==
    [][last'.op = "load_ply" =>
            /\ last'.result._xyz = _xyz
            /\ last'.result._features_dc = _features_dc
            /\ last'.result._features_rest = _features_rest
            /\ last'.result._opacity = _opacity
            /\ last'.result._scaling = _scaling
            /\ last'.result._rotation = _rotation
            /\ last'.result._type = _type]_vars

\* a / d with NaN replaced by zero
AvgOrZero(a, d) == IF IsNaN(Quot(a, d)) THEN Zero ELSE Quot(a, d)

\* C20: a primitive is cloned or split by densify_and_prune (its pre-call
\* index is in modify_id afterwards) only if the norm of
\* position_gradient_accum / denom, NaN taken as zero, is >= max_grad.
C20_SelectedByPositionGrad ==
    [][last'.op = "densify_and_prune" =>
        \A j \in 1..Len(modify_id') :
            LET i == modify_id'[j] + 1
            IN  GE(Norm(AvgOrZero(position_gradient_accum[i], denom[i])),
                   last'.max_grad)]_vars

\* C20, amended: a primitive is cloned or split by densify_and_prune only
\* if the norm of xyz_gradient_accum / denom, the averaged screen-space
\* gradient norm with NaN taken as zero, is >= max_grad, whatever its
\* position_gradient_accum is.
C20_SelectedByScreenGrad ==
    [][last'.op = "densify_and_prune" =>
        \A j \in 1..Len(modify_id') :
            LET i == modify_id'[j] + 1
            IN  GE(Norm(AvgOrZero(xyz_gradient_accum[i], denom[i])),
                   last'.max_grad)]_vars

\* a densify_and_prune call with a positive threshold that took one
\* visible primitive and left another
C20_Witness ==
    /\ last.op = "densify_and_prune"
    /\ last.max_grad = <<2, 1>>
    /\ last.n = 2
    /\ Len(modify_id) = 1

\* the primitives a densify_and_prune call leaves that carry the id of the
\* pre-call primitive i and have the raw scale sc
CountAfter(i, sc) ==
    Cardinality({j \in 1..Len(_xyz_id') :
                    _xyz_id'[j] = i - 1 /\ _scaling'[j] = sc})

\* C21: in a densify_and_prune call whose pruning pass removes nothing
\* (min_opacity = 0, max_screen_size None), a primitive whose average
\* gradient is >= max_grad is cloned (it is there twice) iff its largest
\* scale is <= percent_dense * extent and split (it is gone, its SplitN
\* shrunk children are there) iff its largest scale is above that, never
\* both; no clone is split; a primitive below max_grad, so for max_grad > 0
\* every never-visible one, is neither cloned nor split.
C21_SelectionsPartition ==
    [][(/\ last'.op = "densify_and_prune"
        /\ last'.min_opacity = 0
        /\ last'.max_screen_size = <<>>) =>
            \A i \in 1..N :
                LET hi == GE(Norm(AvgOrZero(xyz_gradient_accum[i], denom[i])),
                            last'.max_grad)
                    small == MaxScaling(Self)[i] * 100 <= percent_dense * last'.extent
                    copies == CountAfter(i, _scaling[i])
                    children == CountAfter(i, ShrunkScaling(_scaling[i], SplitN))
                IN  /\ (hi /\ small) => (copies = 2 /\ children = 0)
                    /\ (hi /\ ~small) => (copies = 0 /\ children = SplitN)
                    /\ ~hi => (copies = 1 /\ children = 0)
                    /\ (denom[i] = 0 /\ ~GE(Zero, last'.max_grad)) =>
                          (copies = 1 /\ children = 0)]_vars

\* the indices of the true entries of a mask, in order
Sources(sel) == SelectSeq([i \in 1..Len(sel) |-> i], LAMBDA i : sel[i])

\* C22: each primitive a densify_and_clone call appends equals its source,
\* the j-th selected primitive, in colour features, raw opacity, raw scale,
\* raw rotation, type, id and score; the position of a VOLUMETRIC clone is
\* its source's, that of a PLANAR clone is its source's plus that source's
\* position_gradient_accum / denom.
C22_CloneEqualsSource ==
    [][last'.op = "densify_and_clone" =>
        \A j \in 1..(Len(_xyz') - N) :
            LET src == Sources(last'.clone)[j]
            IN  /\ _features_dc'[N + j] = _features_dc[src]
                /\ _features_rest'[N + j] = _features_rest[src]
                /\ _opacity'[N + j] = _opacity[src]
                /\ _scaling'[N + j] = _scaling[src]
                /\ _rotation'[N + j] = _rotation[src]
                /\ _type'[N + j] = _type[src]
                /\ _xyz_id'[N + j] = _xyz_id[src]
                /\ _score'[N + j] = _score[src]
                /\ _xyz'[N + j] =
                      IF _type[src] = PLANAR
                      THEN Nudge(_xyz[src],
                                 Quot(position_gradient_accum[src], denom[src]))
                      ELSE _xyz[src]]_vars

\* a clone call that appended a VOLUMETRIC clone, unmoved, and a PLANAR
\* clone moved by a quotient of a visible source
C22_Witness ==
    /\ last.op = "densify_and_clone"
    /\ err = "none"
    /\ N = last.n + 2
    /\ \E a, b \in (last.n + 1)..N :
          /\ _type[a] = VOLUMETRIC /\ _xyz[a].q = <<>>
          /\ _type[b] = PLANAR /\ Len(_xyz[b].q) = 1 /\ IsFinite(_xyz[b].q[1])
          /\ _xyz[b].q[1][1] # 0

\* C23: each of the SplitN children a densify_and_split call appends has,
\* on every axis, the raw scale log(exp(parent's raw scale) / (0.8 * SplitN)),
\* so a physical scale that is the parent's divided by 0.8 * SplitN to
\* within the rounding of exp and log (one unit of 1e-8) and strictly
\* smaller than the parent's; and it has its parent's colour features, raw
\* opacity, raw rotation, type, id and score.
C23_ChildrenShrunk ==
    [][last'.op = "densify_and_split" =>
        LET k == Count(last'.split)
        IN  \A c \in 1..(SplitN * k) :
                LET src == Sources(last'.split)[((c - 1) % k) + 1]
                    child == N - k + c
                IN  /\ \A a \in 1..3 :
                          LET parent == Exp(_scaling[src][a])
                              phys == Exp(_scaling'[child][a])
                          IN  /\ _scaling'[child][a] =
                                    Log((parent * 10) \div (8 * SplitN))
                              /\ Abs(phys * 8 * SplitN - parent * 10) <= 8 * SplitN
                              /\ phys < parent
                    /\ _features_dc'[child] = _features_dc[src]
                    /\ _features_rest'[child] = _features_rest[src]
                    /\ _opacity'[child] = _opacity[src]
                    /\ _rotation'[child] = _rotation[src]
                    /\ _type'[child] = _type[src]
                    /\ _xyz_id'[child] = _xyz_id[src]
                    /\ _score'[child] = _score[src]]_vars

\* a split of a child of an earlier split, beside a primitive left alone
C23_Witness ==
    /\ last.op = "densify_and_split"
    /\ err = "none"
    /\ ncalls = 2
    /\ Count(last.split) = 1
    /\ N = last.n + 1
    /\ N >= 3
    /\ \E a \in 1..3 : _scaling[N][a] < ZeroLevel

\* the two moments a group's Adam state holds
Moments == {"exp_avg", "exp_avg_sq"}

\* C24: momentum stays with its primitive.  After a prune_points call that
\* completes, each moment of each tracked group that has its Adam state is
\* the pre-call moment at the kept positions, in order, the positions the
\* parameter itself was kept at; after a densify_and_clone call that
\* completes it is the pre-call moment followed by one zero per clone; after
\* a densify_and_split call that completes it is the survivors' pre-call
\* moment followed by zeros for the children.  A group without Adam state
\* stays without.
C24_MomentumAligned ==
    [][(last'.op \in StructuralCalls /\ err' = "none") =>
        \A name \in Tracked :
            LET st == optimizer[name].state
                st2 == optimizer'[name].state
                keep == IF last'.op = "prune_points" THEN Not(last'.mask).v
                        ELSE [i \in 1..N |-> ~last'.split[i]]
                k == IF last'.op = "prune_points" THEN 0
                     ELSE IF last'.op = "densify_and_clone" THEN Count(last'.clone)
                     ELSE SplitN * Count(last'.split)
            IN  /\ st2.present = st.present
                /\ st.present =>
                      \A mo \in Moments :
                          /\ st2[mo] = IF last'.op = "densify_and_clone"
                                       THEN st[mo] \o Zeros(k)
                                       ELSE MaskSelect(st[mo], keep) \o Zeros(k)
                          /\ Len(st2[mo]) = Len(optimizer'[name].params)
                /\ last'.op = "prune_points" =>
                      optimizer'[name].params = MaskSelect(optimizer[name].params, keep)]_vars

\* a prune that removed the first of two primitives after an optimizer step:
\* the survivor carries the second primitive's moments to index 1
C24_Witness ==
    /\ last.op = "prune_points"
    /\ err = "none"
    /\ last.n = 2
    /\ last.mask.v = <<TRUE, FALSE>>
    /\ \A name \in Tracked :
          /\ optimizer[name].state.present
          /\ optimizer[name].state.exp_avg = <<2>>
          /\ optimizer[name].state.exp_avg_sq = <<4>>

\* a clone after an optimizer step: nonzero moments kept, a zero appended
C24_WitnessExtend ==
    /\ last.op = "densify_and_clone"
    /\ err = "none"
    /\ N > last.n
    /\ \A name \in Tracked :
          /\ optimizer[name].state.present
          /\ optimizer[name].state.exp_avg[1] = 1
          /\ optimizer[name].state.exp_avg[N] = 0
          /\ optimizer[name].state.exp_avg_sq[N] = 0

\* a primitive that was never counted has nothing accumulated, so neither
\* quotient by denom is +/-Inf: a division by zero is 0 / 0 = NaN
NeverSeenIsZero ==
    /\ Len(xyz_gradient_accum) = Len(denom)
    /\ Len(position_gradient_accum) = Len(denom)
    /\ \A i \in 1..Len(denom) :
          /\ denom[i] >= 0
          /\ denom[i] = 0 => (xyz_gradient_accum[i] = 0 /\ position_gradient_accum[i] = 0)
          /\ ~IsInf(Quot(xyz_gradient_accum[i], denom[i]))
          /\ ~IsInf(Quot(position_gradient_accum[i], denom[i]))
          /\ IsFinite(AvgOrZero(xyz_gradient_accum[i], denom[i]))

\* denom counts the accumulations that saw the primitive: a call of
\* add_densification_stats adds one for exactly the visible primitives, a
\* densification either resets every count to zero or (when it raised before
\* densification_postfix) leaves the counts, a prune leaves each survivor
\* its count, and no other call changes a count
DenomCounts ==
    /\ last'.op = "add_densification_stats" =>
          denom' = [i \in 1..N |-> denom[i] + (IF last'.mask.v[i] THEN 1 ELSE 0)]
    /\ last'.op \in {"densify_and_clone", "densify_and_split", "densify_and_prune"} =>
          \/ \A i \in 1..Len(denom') : denom'[i] = 0
          \/ err' # "none" /\ denom' = denom
    /\ last'.op = "prune_points" =>
          \/ err' = "none" /\ denom' = MaskSelect(denom, Not(last'.mask).v)
          \/ err' # "none" /\ denom' = denom
    /\ last'.op \in {"optimizer.step", "max_radii2D", "reset_opacity"} =>
          denom' = denom

\* C25: in every state reached from training_setup a primitive with
\* denom = 0 has xyz_gradient_accum = 0 and position_gradient_accum = 0, so
\* no quotient by denom is +/-Inf and the average with NaN replaced by zero
\* is finite; and denom is the number of add_densification_stats calls
\* since the last reset in which the primitive was visible (it starts at
\* zero and every call changes it as DenomCounts says).
C25_DenomCountsVisible ==
    /\ []NeverSeenIsZero
    /\ [][DenomCounts]_vars

\* two primitives after two accumulations: one seen twice, one never seen
C25_Witness ==
    /\ last.op = "add_densification_stats"
    /\ err = "none"
    /\ N = 2
    /\ \E i, j \in 1..2 :
          /\ denom[i] = 2 /\ xyz_gradient_accum[i] > 0
          /\ denom[j] = 0 /\ IsNaN(Quot(xyz_gradient_accum[j], denom[j]))

\* what a reset_opacity call is to do to the object
OpacityReset ==
    /\ err' = "none"
    /\ Len(_opacity') = N
    /\ \A i \in 1..N :
          /\ get_opacity(Self)'[i] = Min2(get_opacity(Self)[i], OpacityCap)
          /\ get_opacity(Self)'[i] <= get_opacity(Self)[i]
          /\ get_opacity(Self)'[i] <= OpacityCap
    /\ optimizer'["opacity"] =
          [params |-> _opacity',
           state |-> [present |-> TRUE, exp_avg |-> Zeros(N), exp_avg_sq |-> Zeros(N)]]
    /\ \A name \in (Tracked \ {"opacity"}) \cup {"scene_scale"} :
          optimizer'[name] = optimizer[name]
    /\ <<_xyz, _features_dc, _features_rest, _scaling, _rotation, _scene_scale>>' =
       <<_xyz, _features_dc, _features_rest, _scaling, _rotation, _scene_scale>>
    /\ <<xyz_gradient_accum, position_gradient_accum, denom, max_radii2D, _score,
          _xyz_id, _type, _normal, modify_id>>' =
       <<xyz_gradient_accum, position_gradient_accum, denom, max_radii2D, _score,
         _xyz_id, _type, _normal, modify_id>>

\* C26: every reset_opacity call, also one made before any optimizer step
\* (when the optimizer holds no Adam state for opacity), completes and sets
\* every opacity to min(previous opacity, 0.01), so that none grows and all
\* are <= 0.01; it gives the opacity group zero moments, keeps N and leaves
\* every other group, its state and every other per-primitive array as they
\* were.
C26_ResetOpacity ==
    [][last'.op = "reset_opacity" => OpacityReset]_vars

\* the attributes and optimizer state of the object r are those the
\* captured tuple holds
Reinstated(r, captured) ==
    /\ r.active_sh_degree = captured[1]
    /\ r._xyz = captured[2]
    /\ r._features_dc = captured[5]
    /\ r._features_rest = captured[6]
    /\ r._scaling = captured[7]
    /\ r._rotation = captured[8]
    /\ r._opacity = captured[9]
    /\ r.max_radii2D = captured[10]
    /\ r.xyz_gradient_accum = captured[11]
    /\ r.denom = captured[12]
    /\ state_dict(r.optimizer) = captured[13]
    /\ r.spatial_lr_scale = captured[14]
    /\ \A name \in Tracked :
          /\ r.optimizer[name].state = optimizer[name].state
          /\ r.optimizer[name].params = optimizer[name].params

\* C27: restore, given the tuple capture returned (fourteen values),
\* completes and leaves the new object with the captured active_sh_degree,
\* _xyz, _features_dc, _features_rest, _scaling, _rotation, _opacity,
\* max_radii2D, xyz_gradient_accum, denom, optimizer state and
\* spatial_lr_scale.
C27_CheckpointRoundTrip ==
    [][(last'.op = "restore" /\ last'.k = Len(last.result)) =>
        /\ last'.result.err = "none"
        /\ Reinstated(last'.result, last.result)]_vars

============================================================================
